---- MODULE Spec2Model ----
(***************************************************************************)
(* Model of the TURN node table (turn/src/router/nodes.rs), the            *)
(* CreatePermission handler (turn/src/processor/create_permission.rs) and  *)
(* the proxy fabric client (turn-proxy/src/lib.rs).                        *)
(***************************************************************************)
EXTENDS Integers, Sequences, FiniteSets, TLC

VARIABLES
    map,        \* Nodes.map: SocketAddr -> Node
    addrs,      \* Nodes.addrs: username -> set of SocketAddr
    now,        \* the monotonic clock, in ticks
    advances,   \* how many times the clock was advanced
    nodes,      \* Proxy.nodes: the view, a Vec<ProxyStateNotifyNode>
    sent,       \* the payloads handed to the fabric (Rpc), oldest first
    proxy_observer_calls,   \* the calls made on the ProxyObserver
    proxy,      \* ctx.env.proxy: whether a Proxy is configured
    router_ports,   \* Router: the relayed ports that are allocated
    port_bounds,    \* Router: the (client address, port) bindings
    observer_calls, \* the calls made on ctx.env.observer
    lock,       \* the RwLock of Proxy.nodes: its writer and its readers
    pc,         \* where each thread that uses Proxy.nodes stands
    rd,         \* the locals of each thread that reads Proxy.nodes
    wr,         \* the view the fabric receive loop is about to store
    table_lock, \* the RwLocks of Nodes.map and Nodes.addrs
    tpc,        \* where each thread that uses the node table stands
    tl,         \* the locals of each thread that uses the node table
    delivered,  \* the positions in sent of the payloads the fabric delivered
    ret         \* the last call: its name, its arguments, what it returned

tableVars == <<map, addrs, now, advances>>
proxyVars == <<nodes, sent, proxy_observer_calls>>
procVars == <<proxy, router_ports, port_bounds, observer_calls>>
lockVars == <<lock, pc, rd, wr>>
stepVars == <<table_lock, tpc, tl, delivered>>
vars == <<map, addrs, now, advances, nodes, sent, proxy_observer_calls,
          proxy, router_ports, port_bounds, observer_calls, lock, pc, rd, wr,
          table_lock, tpc, tl, delivered, ret>>

----------------------------------------------------------------------------
(* Bounds and input sets *)

\* clock ticks per second: Instant is finer than the second as_secs() counts
TicksPerSec == 2
\* how many times the clock advances in one behaviour
MaxAdvances == 2

\* Node::new: lifetime: 600
DefaultLifetime == 600

Addrs == {"10.0.0.1:5000", "10.0.0.2:5000"}
Users == {"alice", "bob"}
\* (mark, secret, password) triples handed to insert
Creds == {<<0, "k0", "pw0">>, <<1, "k1", "pw1">>}
Ports == {49152, 49153}
Channels == {16384}
\* the delays handed to set_lifetime, in seconds
Delays == {0, DefaultLifetime}
\* by how much the clock advances at once: one tick, or just short of the
\* default lifetime
Durations == {1, DefaultLifetime * TicksPerSec - 1}

None == [some |-> FALSE]
Some(v) == [some |-> TRUE, val |-> v]

----------------------------------------------------------------------------
(* Maps *)

Put(f, k, v) == [x \in DOMAIN f \cup {k} |-> IF x = k THEN v ELSE f[x]]
Drop(f, k) == [x \in DOMAIN f \ {k} |-> f[x]]
Contains(s, v) == \E i \in 1..Len(s) : s[i] = v

----------------------------------------------------------------------------
(* Node *)

Node_new(mark, username, secret, password) ==
    [mark |-> mark, channels |-> <<>>, ports |-> <<>>, timer |-> now,
     lifetime |-> DefaultLifetime, secret |-> secret, username |-> username,
     password |-> password]

Node_set_lifetime(n, delay) == [n EXCEPT !.lifetime = delay, !.timer = now]

\* Duration::as_secs: whole seconds, the fraction dropped
as_secs(d) == d \div TicksPerSec

\* Instant::elapsed
elapsed(t) == now - t

Node_is_death_late(n) == as_secs(elapsed(n.timer)) > n.lifetime

Node_is_death(n) == as_secs(elapsed(n.timer)) >= n.lifetime

\* the port is pushed without the contains test
Node_push_port_always(n, port) == [n EXCEPT !.ports = Append(@, port)]

Node_push_port(n, port) ==
    IF ~Contains(n.ports, port) THEN [n EXCEPT !.ports = Append(@, port)] ELSE n

Node_push_channel(n, channel) ==
    IF ~Contains(n.channels, channel)
    THEN [n EXCEPT !.channels = Append(@, channel)] ELSE n

----------------------------------------------------------------------------
(* Nodes: the queries *)

get_node(a) == IF a \in DOMAIN map THEN Some(map[a]) ELSE None

get_secret(a) == IF a \in DOMAIN map THEN Some(map[a].secret) ELSE None

\* the Vec get_addrs returns, as the set of its elements (the AHashSet has no
\* order and no duplicates)
get_addrs(u) == IF u \in DOMAIN addrs THEN addrs[u] ELSE {}

get_deaths == {a \in DOMAIN map : Node_is_death(map[a])}

\* the usernames get_users is called with, in the order of String
UserOrder == <<"alice", "bob", "carol">>

\* BTreeMap::iter: the keys of the index, ascending
index_keys ==
    LET present(u) == u \in DOMAIN addrs
    IN SelectSeq(UserOrder, present)

\* Iterator::skip
iter_skip(s, n) == IF n >= Len(s) THEN << >> ELSE SubSeq(s, n + 1, Len(s))

\* Iterator::take
iter_take(s, n) == IF n >= Len(s) THEN s ELSE SubSeq(s, 1, n)

\* the first limit keys are taken and skip of those dropped
get_users_take_then_skip(skip, limit) ==
    LET page == iter_skip(iter_take(index_keys, limit), skip)
    IN [i \in 1..Len(page) |-> <<page[i], addrs[page[i]]>>]

\* the Vec<SocketAddr> of each user is given as the set of its elements
get_users(skip, limit) ==
    LET page == iter_take(iter_skip(index_keys, skip), limit)
    IN [i \in 1..Len(page) |-> <<page[i], addrs[page[i]]>>]

----------------------------------------------------------------------------
(* Nodes: the operations *)

\* the threads that use the node table
Workers == {"w1", "w2"}

Unlocked == [writer |-> "none", readers |-> {}]
NoCall == [op |-> "none"]

TableInit ==
    /\ map = << >>
    /\ addrs = << >>
    /\ now = 0
    /\ advances = 0
    /\ table_lock = [map |-> Unlocked, addrs |-> Unlocked]
    /\ tpc = [t \in Workers |-> "idle"]
    /\ tl = [t \in Workers |-> NoCall]

\* the threads that use the proxy view: the fabric receive loop, which is its
\* single writer, and the workers that read it
Writer == "recv"
Readers == {"worker"}

NoRead == [op |-> "none"]

\* no thread is inside a call on the proxy view
LockInit ==
    /\ lock = [writer |-> FALSE, readers |-> {}]
    /\ pc = [t \in Readers \cup {Writer} |-> "idle"]
    /\ rd = [t \in Readers |-> NoRead]
    /\ wr = << >>

\* what AHashMap::insert displaces (insert drops it): whether the address held
\* a node, whether that node had ports or channels, whether its lifetime was 0
Displaced(addr) ==
    IF addr \in DOMAIN map
    THEN [held |-> TRUE,
          used |-> map[addr].ports # <<>> \/ map[addr].channels # <<>>,
          zero |-> map[addr].lifetime = 0]
    ELSE [held |-> FALSE, used |-> FALSE, zero |-> FALSE]

\* the call that has just returned
Inserted(mark, addr, username, secret, password, node) ==
    [op |-> "insert", mark |-> mark, addr |-> addr, username |-> username,
     secret |-> secret, password |-> password, displaced |-> Displaced(addr),
     val |-> Some(node.secret)]

\* the node is stored only where the address holds none (entry().or_insert)
insert_if_absent(mark, addr, username, secret, password) ==
    LET node == Node_new(mark, username, secret, password)
        set == IF username \in DOMAIN addrs THEN addrs[username] ELSE {}
    IN /\ map' = IF addr \in DOMAIN map THEN map ELSE Put(map, addr, node)
       /\ addrs' = Put(addrs, username, set \cup {addr})
       /\ ret' = Inserted(mark, addr, username, secret, password, node)
       /\ UNCHANGED <<now, advances>>

insert(mark, addr, username, secret, password) ==
    LET node == Node_new(mark, username, secret, password)
        set == IF username \in DOMAIN addrs THEN addrs[username] ELSE {}
    IN /\ map' = Put(map, addr, node)
       /\ addrs' = Put(addrs, username, set \cup {addr})
       /\ ret' = Inserted(mark, addr, username, secret, password, node)
       /\ UNCHANGED <<now, advances>>

push_port(a, port) ==
    /\ IF a \in DOMAIN map
       THEN /\ map' = [map EXCEPT ![a] = Node_push_port(@, port)]
            /\ ret' = [op |-> "push_port", addr |-> a, arg |-> port,
                       val |-> Some("unit")]
       ELSE /\ map' = map
            /\ ret' = [op |-> "push_port", addr |-> a, arg |-> port, val |-> None]
    /\ UNCHANGED <<addrs, now, advances>>

push_channel(a, channel) ==
    /\ IF a \in DOMAIN map
       THEN /\ map' = [map EXCEPT ![a] = Node_push_channel(@, channel)]
            /\ ret' = [op |-> "push_channel", addr |-> a, arg |-> channel,
                       val |-> Some("unit")]
       ELSE /\ map' = map
            /\ ret' = [op |-> "push_channel", addr |-> a, arg |-> channel,
                       val |-> None]
    /\ UNCHANGED <<addrs, now, advances>>

set_lifetime(a, delay) ==
    /\ IF a \in DOMAIN map
       THEN /\ map' = [map EXCEPT ![a] = Node_set_lifetime(@, delay)]
            /\ ret' = [op |-> "set_lifetime", addr |-> a, arg |-> delay,
                       val |-> Some("unit")]
       ELSE /\ map' = map
            /\ ret' = [op |-> "set_lifetime", addr |-> a, arg |-> delay,
                       val |-> None]
    /\ UNCHANGED <<addrs, now, advances>>

\* self.map.write().remove(a)? returns None before anything changed;
\* user_addrs.get_mut(&node.username)? returns None with the node already gone
remove(a) ==
    /\ IF a \notin DOMAIN map
       THEN /\ UNCHANGED <<map, addrs>>
            /\ ret' = [op |-> "remove", addr |-> a, val |-> None]
       ELSE LET node == map[a] IN
            /\ map' = Drop(map, a)
            /\ IF node.username \notin DOMAIN addrs
               THEN /\ addrs' = addrs
                    /\ ret' = [op |-> "remove", addr |-> a, val |-> None]
               ELSE /\ addrs' = IF Cardinality(addrs[node.username]) = 1
                                THEN Drop(addrs, node.username)
                                ELSE [addrs EXCEPT ![node.username] = @ \ {a}]
                    /\ ret' = [op |-> "remove", addr |-> a, val |-> Some(node)]
    /\ UNCHANGED <<now, advances>>

call_get_deaths ==
    /\ ret' = [op |-> "get_deaths", val |-> get_deaths]
    /\ UNCHANGED <<map, addrs, now, advances>>

call_get_users(skip, limit) ==
    /\ ret' = [op |-> "get_users", skip |-> skip, limit |-> limit,
               val |-> get_users(skip, limit)]
    /\ UNCHANGED <<map, addrs, now, advances>>

\* time passes
Advance(d) ==
    /\ advances < MaxAdvances
    /\ now' = now + d
    /\ advances' = advances + 1
    /\ ret' = [op |-> "advance"]
    /\ UNCHANGED <<map, addrs>>

\* The node table alone: no proxy, no router, no handler.
NodesInit ==
    /\ TableInit
    /\ LockInit
    /\ nodes = << >>
    /\ sent = << >>
    /\ delivered = << >>
    /\ proxy_observer_calls = << >>
    /\ proxy = FALSE
    /\ router_ports = {}
    /\ port_bounds = {}
    /\ observer_calls = << >>
    /\ ret = [op |-> "new"]

NodesInsert ==
    /\ \E c \in Creds, a \in Addrs, u \in Users :
          insert(c[1], a, u, c[2], c[3])
    /\ UNCHANGED <<proxyVars, procVars, lockVars, stepVars>>
NodesPushPort ==
    /\ \E a \in Addrs, p \in Ports : push_port(a, p)
    /\ UNCHANGED <<proxyVars, procVars, lockVars, stepVars>>
NodesPushChannel ==
    /\ \E a \in Addrs, c \in Channels : push_channel(a, c)
    /\ UNCHANGED <<proxyVars, procVars, lockVars, stepVars>>
NodesSetLifetime ==
    /\ \E a \in Addrs, d \in Delays : set_lifetime(a, d)
    /\ UNCHANGED <<proxyVars, procVars, lockVars, stepVars>>
NodesRemove ==
    /\ \E a \in Addrs : remove(a)
    /\ UNCHANGED <<proxyVars, procVars, lockVars, stepVars>>
NodesGetDeaths ==
    /\ call_get_deaths
    /\ UNCHANGED <<proxyVars, procVars, lockVars, stepVars>>
NodesAdvance ==
    /\ \E d \in Durations : Advance(d)
    /\ UNCHANGED <<proxyVars, procVars, lockVars, stepVars>>

NodesNext ==
    \/ NodesInsert
    \/ NodesSetLifetime
    \/ NodesRemove
    \/ NodesGetDeaths
    \/ NodesAdvance

SpecNodes == NodesInit /\ [][NodesNext]_vars

\* the largest skip and the largest limit get_users is called with
MaxSkip == 3
MaxLimit == 3

UsersInsert ==
    /\ \E a \in Addrs, i \in 1..Len(UserOrder) :
          insert(0, a, UserOrder[i], "k0", "pw0")
    /\ UNCHANGED <<proxyVars, procVars, lockVars, stepVars>>
UsersGetUsers ==
    /\ \E skip \in 0..MaxSkip, limit \in 0..MaxLimit :
          call_get_users(skip, limit)
    /\ UNCHANGED <<proxyVars, procVars, lockVars, stepVars>>

\* The listing of the users: the index is filled and pruned, and paged through.
UsersNext ==
    \/ UsersInsert
    \/ NodesRemove
    \/ UsersGetUsers

SpecUsers == NodesInit /\ [][UsersNext]_vars

\* The sessions of the node table: the calls that fill, refresh and drop the
\* nodes, with the clock standing still.
SessionNext ==
    \/ NodesInsert
    \/ NodesPushPort
    \/ NodesPushChannel
    \/ NodesSetLifetime
    \/ NodesRemove

SpecSession == NodesInit /\ [][SessionNext]_vars

----------------------------------------------------------------------------
(* The node table: properties *)

\* the addresses whose node is registered under username u
AddrsOfUser(u) == {a \in DOMAIN map : map[a].username = u}

\* C1: after any sequence of insert and remove calls, for every username u
\* the address set of the username->addrs index is exactly the set of
\* addresses whose node in the map has username u.
C1_AddrsIndexExact == \A u \in Users : get_addrs(u) = AddrsOfUser(u)

\* the addresses of the nodes for which now - timer >= lifetime
Expired == {a \in DOMAIN map :
              now - map[a].timer >= map[a].lifetime * TicksPerSec}

\* C10: at every instant get_deaths is exactly the set of addresses of the
\* nodes for which now - timer >= lifetime: a node of lifetime 0 is reported
\* at once, a node inserted or refreshed with s > 0 is not reported before s
\* seconds have passed since, and a get_deaths call leaves the table as it
\* was.
C10_DeathsExact ==
    /\ [](/\ get_deaths = Expired
          /\ ret.op = "get_deaths" => ret.val = Expired
          /\ \A a \in DOMAIN map :
                /\ map[a].lifetime = 0 => a \in get_deaths
                /\ (/\ map[a].lifetime > 0
                    /\ now - map[a].timer < map[a].lifetime * TicksPerSec)
                   => a \notin get_deaths)
    /\ [][ret'.op = "get_deaths" => (map' = map /\ addrs' = addrs)]_vars

\* get_deaths has just reported a node that outlived a positive lifetime and
\* has left out a node that is part of the way through its own
C10_Witness ==
    /\ ret.op = "get_deaths"
    /\ \E a \in ret.val : map[a].lifetime > 0
    /\ \E b \in DOMAIN map \ ret.val : now > map[b].timer

\* C11: right after insert(mark, addr, username, secret, password),
\* get_node(addr) is a node with that mark, username, secret and password,
\* empty ports and channels, lifetime 600 and not dead, and get_secret(addr)
\* is that secret, whatever the address held before.
C11_InsertThenGet ==
    ret.op = "insert"
    => /\ get_node(ret.addr).some
       /\ LET n == get_node(ret.addr).val
          IN /\ n.mark = ret.mark
             /\ n.username = ret.username
             /\ n.secret = ret.secret
             /\ n.password = ret.password
             /\ n.ports = << >>
             /\ n.channels = << >>
             /\ n.lifetime = 600
             /\ ~Node_is_death(n)
       /\ get_secret(ret.addr) = Some(ret.secret)
       /\ ret.val = Some(ret.secret)

\* an insert has just replaced a node that had ports or channels and a zero
\* lifetime
C11_Witness ==
    /\ ret.op = "insert"
    /\ ret.displaced.held
    /\ ret.displaced.used
    /\ ret.displaced.zero
    /\ map[ret.addr].ports = << >>

\* C12: remove(a) on an address holding a node of username u returns that
\* node; afterwards get_node(a) and get_secret(a) are None and get_addrs(u)
\* does not contain a; when a was the last address holding a node of u, u is
\* no longer a key of the index; the nodes of the other addresses are
\* unchanged.
C12_RemovePrunes ==
    [][\A a \in Addrs :
         (a \in DOMAIN map /\ remove(a))
         => LET u == map[a].username
            IN /\ ret'.val = Some(map[a])
               /\ a \notin DOMAIN map'
               /\ u \in DOMAIN addrs' => a \notin addrs'[u]
               /\ AddrsOfUser(u) = {a} => u \notin DOMAIN addrs'
               /\ \A b \in DOMAIN map \ {a} :
                     b \in DOMAIN map' /\ map'[b] = map[b]]_vars

NoDuplicates(s) == \A i, j \in 1..Len(s) : s[i] = s[j] => i = j
IsPrefix(s, t) == Len(s) <= Len(t) /\ \A i \in 1..Len(s) : s[i] = t[i]

\* C13: the ports and the channels of a node never hold a value twice; a
\* push of a value the list holds leaves the node as it was, a push of a new
\* value appends it, and a push keeps what every list held, in its order.
C13_PushIdempotent ==
    /\ [](\A a \in DOMAIN map :
             NoDuplicates(map[a].ports) /\ NoDuplicates(map[a].channels))
    /\ [][ret'.op \in {"push_port", "push_channel"}
          => /\ DOMAIN map' = DOMAIN map
             /\ \A a \in DOMAIN map :
                   /\ IsPrefix(map[a].ports, map'[a].ports)
                   /\ IsPrefix(map[a].channels, map'[a].channels)
             /\ (ret'.op = "push_port" /\ ret'.val.some)
                => map'[ret'.addr].ports =
                      IF Contains(map[ret'.addr].ports, ret'.arg)
                      THEN map[ret'.addr].ports
                      ELSE Append(map[ret'.addr].ports, ret'.arg)
             /\ (ret'.op = "push_channel" /\ ret'.val.some)
                => map'[ret'.addr].channels =
                      IF Contains(map[ret'.addr].channels, ret'.arg)
                      THEN map[ret'.addr].channels
                      ELSE Append(map[ret'.addr].channels, ret'.arg)]_vars

\* a port has just been pushed on a node that held it already, first of two,
\* and that has a channel
C13_Witness ==
    /\ ret.op = "push_port"
    /\ ret.val.some
    /\ Len(map[ret.addr].ports) = 2
    /\ map[ret.addr].ports[1] = ret.arg
    /\ map[ret.addr].channels # << >>

\* C18: every address get_addrs(u) returns holds a node of username u that
\* is not dead.
C18_AddrsAreLive ==
    \A u \in Users : \A a \in get_addrs(u) :
        /\ a \in DOMAIN map
        /\ map[a].username = u
        /\ ~Node_is_death(map[a])

----------------------------------------------------------------------------
(* The node table under its RwLocks, one step at a time *)

\* RwLock::read: granted while no writer holds the lock
rw_can_read(l) == l.writer = "none"

\* RwLock::write: granted while nobody holds the lock
rw_can_write(l) == l.writer = "none" /\ l.readers = {}

\* addrs.entry(username).or_insert_with(..).insert(addr)
index_add(ad, username, addr) ==
    Put(ad, username,
        (IF username \in DOMAIN ad THEN ad[username] ELSE {}) \cup {addr})

\* if addrs.len() == 1 { user_addrs.remove(username) } else { addrs.remove(a) }
index_prune(ad, username, a) ==
    IF Cardinality(ad[username]) = 1
    THEN Drop(ad, username)
    ELSE [ad EXCEPT ![username] = @ \ {a}]

\* what a thread holds of the table when it has locked the index
Snapshot == [map |-> map, addrs |-> addrs]

\* a thread enters insert: Node::new is evaluated before any lock is taken
insert_call(t, mark, addr, username, secret, password) ==
    /\ tpc[t] = "idle"
    /\ tpc' = [tpc EXCEPT ![t] = "insert_addrs"]
    /\ tl' = [tl EXCEPT ![t] =
                 [op |-> "insert", addr |-> addr, username |-> username,
                  node |-> Node_new(mark, username, secret, password)]]
    /\ UNCHANGED <<map, addrs, now, advances, table_lock, ret>>

\* the index is not locked here: the thread goes on without the guard
insert_lock_addrs_late(t) ==
    /\ tpc[t] = "insert_addrs"
    /\ tpc' = [tpc EXCEPT ![t] = "insert_map"]
    /\ tl' = [tl EXCEPT ![t] = [snap |-> Snapshot] @@ @]
    /\ UNCHANGED <<map, addrs, now, advances, table_lock, ret>>

\* let mut addrs = self.addrs.write();
insert_lock_addrs(t) ==
    /\ tpc[t] = "insert_addrs"
    /\ rw_can_write(table_lock.addrs)
    /\ table_lock' = [table_lock EXCEPT !.addrs.writer = t]
    /\ tpc' = [tpc EXCEPT ![t] = "insert_map"]
    /\ tl' = [tl EXCEPT ![t] = [snap |-> Snapshot] @@ @]
    /\ UNCHANGED <<map, addrs, now, advances, ret>>

\* self.map.write()
insert_lock_map(t) ==
    /\ tpc[t] = "insert_map"
    /\ rw_can_write(table_lock.map)
    /\ table_lock' = [table_lock EXCEPT !.map.writer = t]
    /\ tpc' = [tpc EXCEPT ![t] = "insert_store"]
    /\ UNCHANGED <<map, addrs, now, advances, tl, ret>>

\* the node is stored and the guard of the map is never dropped
insert_store_keeps_guard(t) ==
    /\ tpc[t] = "insert_store"
    /\ map' = Put(map, tl[t].addr, tl[t].node)
    /\ tpc' = [tpc EXCEPT ![t] = "insert_index"]
    /\ UNCHANGED <<addrs, now, advances, table_lock, tl, ret>>

\* .insert(*addr, node); the guard of the map is a temporary, dropped here
insert_store(t) ==
    /\ tpc[t] = "insert_store"
    /\ map' = Put(map, tl[t].addr, tl[t].node)
    /\ table_lock' = [table_lock EXCEPT !.map.writer = "none"]
    /\ tpc' = [tpc EXCEPT ![t] = "insert_index"]
    /\ UNCHANGED <<addrs, now, advances, tl, ret>>

\* the index is updated, Some(pwd) returned and the guard of addrs dropped
insert_return(t) ==
    /\ tpc[t] = "insert_index"
    /\ addrs' = index_add(addrs, tl[t].username, tl[t].addr)
    /\ table_lock' = [table_lock EXCEPT !.addrs.writer = "none"]
    /\ ret' = [op |-> "insert", addr |-> tl[t].addr,
               username |-> tl[t].username, val |-> Some(tl[t].node.secret)]
    /\ tpc' = [tpc EXCEPT ![t] = "idle"]
    /\ tl' = [tl EXCEPT ![t] = NoCall]
    /\ UNCHANGED <<map, now, advances>>

\* a thread enters remove
remove_call(t, a) ==
    /\ tpc[t] = "idle"
    /\ tpc' = [tpc EXCEPT ![t] = "remove_addrs"]
    /\ tl' = [tl EXCEPT ![t] = [op |-> "remove", addr |-> a]]
    /\ UNCHANGED <<map, addrs, now, advances, table_lock, ret>>

\* let mut user_addrs = self.addrs.write();
remove_lock_addrs(t) ==
    /\ tpc[t] = "remove_addrs"
    /\ rw_can_write(table_lock.addrs)
    /\ table_lock' = [table_lock EXCEPT !.addrs.writer = t]
    /\ tpc' = [tpc EXCEPT ![t] = "remove_map"]
    /\ tl' = [tl EXCEPT ![t] = [snap |-> Snapshot] @@ @]
    /\ UNCHANGED <<map, addrs, now, advances, ret>>

\* self.map.write()
remove_lock_map(t) ==
    /\ tpc[t] = "remove_map"
    /\ rw_can_write(table_lock.map)
    /\ table_lock' = [table_lock EXCEPT !.map.writer = t]
    /\ tpc' = [tpc EXCEPT ![t] = "remove_take"]
    /\ UNCHANGED <<map, addrs, now, advances, tl, ret>>

\* .remove(a)?: without a node None is returned and both guards are dropped;
\* with one, the guard of the map, a temporary, is dropped
remove_take(t) ==
    /\ tpc[t] = "remove_take"
    /\ IF tl[t].addr \notin DOMAIN map
       THEN /\ table_lock' = [table_lock EXCEPT !.map.writer = "none",
                                                !.addrs.writer = "none"]
            /\ ret' = [op |-> "remove", addr |-> tl[t].addr, val |-> None]
            /\ tpc' = [tpc EXCEPT ![t] = "idle"]
            /\ tl' = [tl EXCEPT ![t] = NoCall]
            /\ map' = map
       ELSE /\ map' = Drop(map, tl[t].addr)
            /\ table_lock' = [table_lock EXCEPT !.map.writer = "none"]
            /\ tpc' = [tpc EXCEPT ![t] = "remove_index"]
            /\ tl' = [tl EXCEPT ![t] = [node |-> map[tl[t].addr]] @@ @]
            /\ ret' = ret
    /\ UNCHANGED <<addrs, now, advances>>

\* the index is pruned, the node returned and the guard of addrs dropped
remove_return(t) ==
    /\ tpc[t] = "remove_index"
    /\ IF tl[t].node.username \notin DOMAIN addrs
       THEN /\ addrs' = addrs
            /\ ret' = [op |-> "remove", addr |-> tl[t].addr, val |-> None]
       ELSE /\ addrs' = index_prune(addrs, tl[t].node.username, tl[t].addr)
            /\ ret' = [op |-> "remove", addr |-> tl[t].addr,
                       val |-> Some(tl[t].node)]
    /\ table_lock' = [table_lock EXCEPT !.addrs.writer = "none"]
    /\ tpc' = [tpc EXCEPT ![t] = "idle"]
    /\ tl' = [tl EXCEPT ![t] = NoCall]
    /\ UNCHANGED <<map, now, advances>>

\* a thread enters get_addrs
get_addrs_call(t, u) ==
    /\ tpc[t] = "idle"
    /\ tpc' = [tpc EXCEPT ![t] = "get_addrs_addrs"]
    /\ tl' = [tl EXCEPT ![t] = [op |-> "get_addrs", username |-> u]]
    /\ UNCHANGED <<map, addrs, now, advances, table_lock, ret>>

\* self.addrs.read()
get_addrs_lock(t) ==
    /\ tpc[t] = "get_addrs_addrs"
    /\ rw_can_read(table_lock.addrs)
    /\ table_lock' = [table_lock EXCEPT !.addrs.readers = @ \cup {t}]
    /\ tpc' = [tpc EXCEPT ![t] = "get_addrs_read"]
    /\ UNCHANGED <<map, addrs, now, advances, tl, ret>>

\* .get(u).cloned()...collect(): the set is read and the guard dropped
get_addrs_return(t) ==
    /\ tpc[t] = "get_addrs_read"
    /\ ret' = [op |-> "get_addrs", username |-> tl[t].username,
               addrs |-> get_addrs(tl[t].username)]
    /\ table_lock' = [table_lock EXCEPT !.addrs.readers = @ \ {t}]
    /\ tpc' = [tpc EXCEPT ![t] = "idle"]
    /\ tl' = [tl EXCEPT ![t] = NoCall]
    /\ UNCHANGED <<map, addrs, now, advances>>

\* a thread enters push_port, push_channel or set_lifetime
map_write_call(t, op, a, arg) ==
    /\ tpc[t] = "idle"
    /\ tpc' = [tpc EXCEPT ![t] = "map_write"]
    /\ tl' = [tl EXCEPT ![t] = [op |-> op, addr |-> a, arg |-> arg]]
    /\ UNCHANGED <<map, addrs, now, advances, table_lock, ret>>

\* self.map.write()
map_write_lock(t) ==
    /\ tpc[t] = "map_write"
    /\ rw_can_write(table_lock.map)
    /\ table_lock' = [table_lock EXCEPT !.map.writer = t]
    /\ tpc' = [tpc EXCEPT ![t] = "map_apply"]
    /\ UNCHANGED <<map, addrs, now, advances, tl, ret>>

\* .get_mut(a)?.push_port(port) (or push_channel, set_lifetime); the guard is
\* dropped and Some(()) or None returned
map_write_return(t) ==
    /\ tpc[t] = "map_apply"
    /\ IF tl[t].addr \in DOMAIN map
       THEN /\ map' = [map EXCEPT ![tl[t].addr] =
                         IF tl[t].op = "push_port"
                         THEN Node_push_port(@, tl[t].arg)
                         ELSE IF tl[t].op = "push_channel"
                         THEN Node_push_channel(@, tl[t].arg)
                         ELSE Node_set_lifetime(@, tl[t].arg)]
            /\ ret' = [op |-> tl[t].op, addr |-> tl[t].addr,
                       arg |-> tl[t].arg, val |-> Some("unit")]
       ELSE /\ map' = map
            /\ ret' = [op |-> tl[t].op, addr |-> tl[t].addr,
                       arg |-> tl[t].arg, val |-> None]
    /\ table_lock' = [table_lock EXCEPT !.map.writer = "none"]
    /\ tpc' = [tpc EXCEPT ![t] = "idle"]
    /\ tl' = [tl EXCEPT ![t] = NoCall]
    /\ UNCHANGED <<addrs, now, advances>>

\* a thread enters get_node, get_secret or get_deaths
map_read_call(t, op, a) ==
    /\ tpc[t] = "idle"
    /\ tpc' = [tpc EXCEPT ![t] = "map_read"]
    /\ tl' = [tl EXCEPT ![t] = [op |-> op, addr |-> a]]
    /\ UNCHANGED <<map, addrs, now, advances, table_lock, ret>>

\* self.map.read()
map_read_lock(t) ==
    /\ tpc[t] = "map_read"
    /\ rw_can_read(table_lock.map)
    /\ table_lock' = [table_lock EXCEPT !.map.readers = @ \cup {t}]
    /\ tpc' = [tpc EXCEPT ![t] = "map_reading"]
    /\ UNCHANGED <<map, addrs, now, advances, tl, ret>>

\* the map is read, the guard dropped and the value returned
map_read_return(t) ==
    /\ tpc[t] = "map_reading"
    /\ ret' = IF tl[t].op = "get_deaths"
              THEN [op |-> "get_deaths", deaths |-> get_deaths]
              ELSE IF tl[t].op = "get_node"
              THEN [op |-> "get_node", addr |-> tl[t].addr,
                    val |-> get_node(tl[t].addr)]
              ELSE [op |-> "get_secret", addr |-> tl[t].addr,
                    secret |-> get_secret(tl[t].addr)]
    /\ table_lock' = [table_lock EXCEPT !.map.readers = @ \ {t}]
    /\ tpc' = [tpc EXCEPT ![t] = "idle"]
    /\ tl' = [tl EXCEPT ![t] = NoCall]
    /\ UNCHANGED <<map, addrs, now, advances>>

\* a thread enters get_users
get_users_call(t, skip, limit) ==
    /\ tpc[t] = "idle"
    /\ tpc' = [tpc EXCEPT ![t] = "get_users_addrs"]
    /\ tl' = [tl EXCEPT ![t] = [op |-> "get_users", skip |-> skip,
                                limit |-> limit]]
    /\ UNCHANGED <<map, addrs, now, advances, table_lock, ret>>

\* self.addrs.read()
get_users_lock(t) ==
    /\ tpc[t] = "get_users_addrs"
    /\ rw_can_read(table_lock.addrs)
    /\ table_lock' = [table_lock EXCEPT !.addrs.readers = @ \cup {t}]
    /\ tpc' = [tpc EXCEPT ![t] = "get_users_read"]
    /\ UNCHANGED <<map, addrs, now, advances, tl, ret>>

\* the page is collected, the guard dropped and the Vec returned
get_users_return(t) ==
    /\ tpc[t] = "get_users_read"
    /\ ret' = [op |-> "get_users", skip |-> tl[t].skip, limit |-> tl[t].limit,
               users |-> get_users(tl[t].skip, tl[t].limit)]
    /\ table_lock' = [table_lock EXCEPT !.addrs.readers = @ \ {t}]
    /\ tpc' = [tpc EXCEPT ![t] = "idle"]
    /\ tl' = [tl EXCEPT ![t] = NoCall]
    /\ UNCHANGED <<map, addrs, now, advances>>

tableFrame ==
    UNCHANGED <<proxyVars, procVars, lockVars, delivered>>

TableInsert ==
    /\ \E t \in Workers, a \in Addrs, u \in Users :
          insert_call(t, 0, a, u, "k0", "pw0")
    /\ tableFrame
TableInsertLockAddrs ==
    /\ \E t \in Workers : insert_lock_addrs(t)
    /\ tableFrame
TableInsertLockMap ==
    /\ \E t \in Workers : insert_lock_map(t)
    /\ tableFrame
TableInsertStore ==
    /\ \E t \in Workers : insert_store(t)
    /\ tableFrame
TableInsertReturn ==
    /\ \E t \in Workers : insert_return(t)
    /\ tableFrame
TableRemove ==
    /\ \E t \in Workers, a \in Addrs : remove_call(t, a)
    /\ tableFrame
TableRemoveLockAddrs ==
    /\ \E t \in Workers : remove_lock_addrs(t)
    /\ tableFrame
TableRemoveLockMap ==
    /\ \E t \in Workers : remove_lock_map(t)
    /\ tableFrame
TableRemoveTake ==
    /\ \E t \in Workers : remove_take(t)
    /\ tableFrame
TableRemoveReturn ==
    /\ \E t \in Workers : remove_return(t)
    /\ tableFrame
TableGetAddrs ==
    /\ \E t \in Workers, u \in Users : get_addrs_call(t, u)
    /\ tableFrame
TableGetAddrsLock ==
    /\ \E t \in Workers : get_addrs_lock(t)
    /\ tableFrame
TableGetAddrsReturn ==
    /\ \E t \in Workers : get_addrs_return(t)
    /\ tableFrame

TableNext ==
    \/ TableInsert
    \/ TableInsertLockAddrs
    \/ TableInsertLockMap
    \/ TableInsertStore
    \/ TableInsertReturn
    \/ TableRemove
    \/ TableRemoveLockAddrs
    \/ TableRemoveLockMap
    \/ TableRemoveTake
    \/ TableRemoveReturn
    \/ TableGetAddrs
    \/ TableGetAddrsLock
    \/ TableGetAddrsReturn

SpecTable == NodesInit /\ [][TableNext]_vars

\* the address and the username of the calls of SpecCalls
CallAddr == "10.0.0.1:5000"
CallUser == "alice"

\* a thread enters one of the calls of Nodes
calls_enter(t) ==
    \/ insert_call(t, 0, CallAddr, CallUser, "k0", "pw0")
    \/ remove_call(t, CallAddr)
    \/ map_write_call(t, "push_port", CallAddr, 49152)
    \/ map_write_call(t, "push_channel", CallAddr, 16384)
    \/ map_write_call(t, "set_lifetime", CallAddr, 0)
    \/ \E op \in {"get_node", "get_secret", "get_deaths"} :
          map_read_call(t, op, CallAddr)
    \/ get_addrs_call(t, CallUser)
    \/ get_users_call(t, 0, 1)

\* a thread is granted a lock it waits for
calls_acquire(t) ==
    \/ insert_lock_addrs(t)
    \/ insert_lock_map(t)
    \/ remove_lock_addrs(t)
    \/ remove_lock_map(t)
    \/ map_write_lock(t)
    \/ map_read_lock(t)
    \/ get_addrs_lock(t)
    \/ get_users_lock(t)

\* a thread that waits for no lock goes on
calls_run(t) ==
    \/ insert_store(t)
    \/ insert_return(t)
    \/ remove_take(t)
    \/ remove_return(t)
    \/ map_write_return(t)
    \/ map_read_return(t)
    \/ get_addrs_return(t)
    \/ get_users_return(t)

CallsEnter ==
    /\ \E t \in Workers : calls_enter(t)
    /\ tableFrame
CallsAcquire ==
    /\ \E t \in Workers : calls_acquire(t)
    /\ tableFrame
CallsRun ==
    /\ \E t \in Workers : calls_run(t)
    /\ tableFrame

CallsNext ==
    \/ CallsEnter
    \/ CallsAcquire
    \/ CallsRun

\* a thread inside a call is scheduled again and again, and the RwLock is
\* fair: a thread that could be granted its lock again and again is granted
\* it
CallsFairness ==
    \A t \in Workers :
        /\ WF_vars(calls_run(t) /\ tableFrame)
        /\ SF_vars(calls_acquire(t) /\ tableFrame)

SpecCalls == NodesInit /\ [][CallsNext]_vars /\ CallsFairness

\* the usernames of the index that come before u
Before(u) ==
    {v \in DOMAIN addrs :
        \E i, j \in 1..Len(UserOrder) :
            i < j /\ UserOrder[i] = v /\ UserOrder[j] = u}

\* the usernames of the pages of the given size, one after the other, until
\* a page comes back empty
RECURSIVE PagedNames(_, _)
PagedNames(skip, limit) ==
    LET page == get_users(skip, limit)
    IN IF page = << >> THEN << >>
       ELSE [i \in 1..Len(page) |-> page[i][1]]
            \o PagedNames(skip + limit, limit)

\* C22: get_users(skip, limit) lists the usernames that have at least skip and
\* fewer than skip + limit usernames of the index before them, ascending, each
\* with exactly its address set; the pages skip = 0, limit, 2*limit, ... hold
\* every username of the index once; an empty index gives an empty list; and
\* the call leaves the table as it was.
C22_GetUsersPages ==
    /\ [](/\ \A skip \in 0..MaxSkip, limit \in 0..MaxLimit :
                LET page == get_users(skip, limit)
                IN /\ {page[i][1] : i \in 1..Len(page)} =
                         {u \in DOMAIN addrs :
                             /\ Cardinality(Before(u)) >= skip
                             /\ Cardinality(Before(u)) < skip + limit}
                   /\ \A i \in 1..Len(page) :
                         /\ Cardinality(Before(page[i][1])) = skip + i - 1
                         /\ page[i][2] = addrs[page[i][1]]
                   /\ addrs = << >> => page = << >>
          /\ \A limit \in 1..MaxLimit :
                LET names == PagedNames(0, limit)
                IN /\ Len(names) = Cardinality(DOMAIN addrs)
                   /\ {names[i] : i \in 1..Len(names)} = DOMAIN addrs
          /\ ret.op = "get_users" => ret.val = get_users(ret.skip, ret.limit))
    /\ [][ret'.op = "get_users" => (map' = map /\ addrs' = addrs)]_vars

\* the second page of size one has just been listed on an index of three
\* usernames: it holds bob with his two addresses
C22_Witness ==
    /\ ret.op = "get_users"
    /\ ret.skip = 1
    /\ ret.limit = 1
    /\ DOMAIN addrs = {"alice", "bob", "carol"}
    /\ ret.val = <<<<"bob", Addrs>>>>

\* C14: a thread that is about to request the lock of the map does not hold
\* the lock of addrs.
C14_MapBeforeAddrs ==
    \A t \in Workers :
        tpc[t] \in {"insert_map", "remove_map"}
        => /\ table_lock.addrs.writer # t
           /\ t \notin table_lock.addrs.readers

\* the thread is inside the critical section of insert or remove
InSection(t) ==
    tpc[t] \in {"insert_map", "insert_store", "insert_index",
                "remove_map", "remove_take", "remove_index"}

\* C15: insert and remove each update the map and the index inside one
\* critical section: at most one thread is inside, it holds the write lock of
\* addrs and finds the table as it locked it; what it leaves is the table it
\* locked with the whole insert or remove applied; and a thread that reads
\* the index does so while no insert or remove is under way, finding every
\* node of the map listed under its username.
C15_OneCriticalSection ==
    /\ [](\A t \in Workers :
             InSection(t)
             => /\ table_lock.addrs.writer = t
                /\ \A u \in Workers \ {t} : ~InSection(u)
                /\ tpc[t] \in {"insert_map", "insert_store",
                               "remove_map", "remove_take"}
                   => Snapshot = tl[t].snap)
    /\ [](\A r \in Workers :
             tpc[r] = "get_addrs_read"
             => /\ \A t \in Workers : ~InSection(t)
                /\ \A a \in DOMAIN map : a \in get_addrs(map[a].username))
    /\ [][\A t \in Workers :
            /\ insert_return(t)
               => /\ map' = Put(tl[t].snap.map, tl[t].addr, tl[t].node)
                  /\ addrs' = index_add(tl[t].snap.addrs, tl[t].username,
                                        tl[t].addr)
            /\ remove_return(t)
               => /\ map' = Drop(tl[t].snap.map, tl[t].addr)
                  /\ tl[t].node = tl[t].snap.map[tl[t].addr]
                  /\ addrs' =
                        IF tl[t].node.username \in DOMAIN tl[t].snap.addrs
                        THEN index_prune(tl[t].snap.addrs,
                                         tl[t].node.username, tl[t].addr)
                        ELSE tl[t].snap.addrs]_vars

\* a thread has stored its node in the map and not yet in the index, over a
\* table that holds another node, while a second thread waits to read the
\* addresses of the same username
C15_Witness ==
    \E t, r \in Workers :
        /\ tpc[t] = "insert_index"
        /\ tl[t].addr \notin get_addrs(tl[t].username)
        /\ tpc[r] = "get_addrs_addrs"
        /\ tl[r].username = tl[t].username
        /\ Cardinality(DOMAIN map) = 2
        /\ ret.op = "remove"

\* the thread is inside a call
InCall(t) == tpc[t] # "idle"

\* the thread is inside a call and waits for no lock
Runs(t) ==
    tpc[t] \in {"insert_store", "insert_index", "remove_take", "remove_index",
                "map_apply", "map_reading", "get_addrs_read", "get_users_read"}

\* the lock a thread that does not run waits for
WaitsFor(t) ==
    IF tpc[t] \in {"insert_addrs", "remove_addrs", "get_addrs_addrs",
                   "get_users_addrs"}
    THEN "addrs" ELSE "map"

\* C23: the node table is free of deadlock: while some thread is inside a
\* call, some thread runs or waits for a lock that nobody holds (no cycle of
\* threads each waiting for a lock another holds), and every call eventually
\* returns.
C23_DeadlockFree ==
    /\ []((\E t \in Workers : InCall(t))
          => \E t \in Workers :
                \/ Runs(t)
                \/ InCall(t) /\ table_lock[WaitsFor(t)] = Unlocked)
    /\ \A t \in Workers : InCall(t) ~> tpc[t] = "idle"

\* a thread inside insert holds the lock of addrs and waits for the lock of
\* the map, which a reading thread holds, after a remove has returned a node
C23_Witness ==
    \E t, r \in Workers :
        /\ tpc[t] = "insert_map"
        /\ table_lock.addrs.writer = t
        /\ tpc[r] = "map_reading"
        /\ r \in table_lock.map.readers
        /\ ret.op = "remove"
        /\ ret.val.some

----------------------------------------------------------------------------
(* The proxy fabric client: turn-proxy/src/lib.rs *)

\* the longest view a ProxyStateNotify carries
MaxView == 2
\* how many payloads are handed to the fabric in one behaviour
MaxSent == 1
\* how many ProxyObserver calls are made in one behaviour
MaxObserved == 1

\* SocketAddr: an IP and a port; ip() drops the port
SocketAddr(ip, port) == [ip |-> ip, port |-> port]
ip_of(a) == a.ip

\* the server's external address (ctx.env.external)
External == SocketAddr("203.0.113.5", 3478)
\* the external IPs of the remote instances
RemoteIps == {"198.51.100.9", "192.0.2.7"}
\* the client whose requests are handled (ctx.addr)
Client == SocketAddr("10.0.0.1", 5000)

\* the fabric index of the instance at a remote IP
IndexOf(i) == IF i = "198.51.100.9" THEN 7 ELSE 8

\* ProxyStateNotifyNode {index, external, online}: every remote instance has
\* its index and its external address; a view may list an instance twice
ProxyStateNotifyNodes ==
    {[index |-> IndexOf(i), external |-> SocketAddr(i, 3478), online |-> o] :
        i \in RemoteIps, o \in BOOLEAN}

SeqsUpTo(S, n) == UNION {[1..k -> S] : k \in 0..n}
Views == SeqsUpTo(ProxyStateNotifyNodes, MaxView)

\* the peer addresses of the model
PeerPorts == {6000, 7000}
LocalPeers == {SocketAddr(ip_of(External), p) : p \in PeerPorts}
Peers == LocalPeers \cup {SocketAddr(i, 7000) : i \in RemoteIps}

\* the nodes a closure |n| n.external.ip() == ip accepts
WithIp(ip) == {n \in ProxyStateNotifyNodes : ip_of(n.external) = ip}

\* Iterator::find: the position of the first element that is one of those the
\* closure accepts, 0 when there is none
find(s, accepted) ==
    LET S == {i \in 1..Len(s) : s[i] \in accepted}
    IN IF S = {} THEN 0 ELSE CHOOSE i \in S : \A j \in S : i <= j

in_online_nodes(addr) ==
    LET i == find(nodes, WithIp(addr))
    IN IF i # 0 THEN nodes[i].online ELSE FALSE

\* Rpc::send / Rpc::send_with_order: the payload is handed to the fabric
rpc_send(payload, to) ==
    sent' = Append(sent, [payload |-> payload, to |-> to, order |-> FALSE])

rpc_send_with_order(payload, to) ==
    sent' = Append(sent, [payload |-> payload, to |-> to, order |-> TRUE])

Ok == [ok |-> TRUE]
Err(e) == [ok |-> FALSE, err |-> e]

Proxy_send(payload, to) ==
    /\ rpc_send(payload, to)
    /\ ret' = [op |-> "Proxy.send", val |-> Ok]
    /\ UNCHANGED <<nodes, proxy_observer_calls>>

\* the relayed data goes through the plain send
Proxy_relay_unordered(payload, to) ==
    /\ rpc_send(payload, to)
    /\ ret' = [op |-> "Proxy.relay", val |-> Ok]
    /\ UNCHANGED <<nodes, proxy_observer_calls>>

Proxy_relay(payload, to) ==
    /\ rpc_send_with_order(payload, to)
    /\ ret' = [op |-> "Proxy.relay", val |-> Ok]
    /\ UNCHANGED <<nodes, proxy_observer_calls>>

\* the payload goes to the first node of the view, whatever find returned
Proxy_create_permission_first_node(from, peer) ==
    /\ IF nodes = << >>
       THEN /\ sent' = sent
            /\ ret' = [op |-> "Proxy.create_permission", from |-> from,
                       peer |-> peer, val |-> Err("not found node!")]
       ELSE /\ rpc_send_with_order(
                  [type |-> "CreatePermission", id |-> nodes[1].index,
                   from |-> from, peer |-> peer],
                  nodes[1].index)
            /\ ret' = [op |-> "Proxy.create_permission", from |-> from,
                       peer |-> peer, val |-> Ok]
    /\ UNCHANGED <<nodes, proxy_observer_calls>>

Proxy_create_permission(from, peer) ==
    LET i == find(nodes, WithIp(ip_of(peer)))
    IN /\ IF i = 0
          THEN /\ sent' = sent
               /\ ret' = [op |-> "Proxy.create_permission", from |-> from,
                          peer |-> peer, val |-> Err("not found node!")]
          ELSE /\ rpc_send_with_order(
                     [type |-> "CreatePermission", id |-> nodes[i].index,
                      from |-> from, peer |-> peer],
                     nodes[i].index)
               /\ ret' = [op |-> "Proxy.create_permission", from |-> from,
                          peer |-> peer, val |-> Ok]
       /\ UNCHANGED <<nodes, proxy_observer_calls>>

call_in_online_nodes(addr) ==
    /\ ret' = [op |-> "in_online_nodes", addr |-> addr,
               val |-> in_online_nodes(addr)]
    /\ UNCHANGED <<nodes, sent, proxy_observer_calls>>

\* the new view is added to the old one
on_store_extend(new) == nodes' = nodes \o new

\* *self.nodes.write() = nodes
on_store(new) == nodes' = new

\* the hook is called with from and peer in each other's place
on_swapped(payload) ==
    /\ IF payload.type = "ProxyStateNotify"
       THEN /\ on_store(payload.nodes)
            /\ UNCHANGED proxy_observer_calls
       ELSE /\ proxy_observer_calls' =
                  Append(proxy_observer_calls,
                         [hook |-> "create_permission", id |-> payload.id,
                          from |-> payload.peer, peer |-> payload.from])
            /\ UNCHANGED nodes
    /\ ret' = [op |-> "on", type |-> payload.type]
    /\ UNCHANGED sent

\* RpcObserverExt::on
on(payload) ==
    /\ IF payload.type = "ProxyStateNotify"
       THEN /\ on_store(payload.nodes)
            /\ UNCHANGED proxy_observer_calls
       ELSE /\ proxy_observer_calls' =
                  Append(proxy_observer_calls,
                         [hook |-> "create_permission", id |-> payload.id,
                          from |-> payload.from, peer |-> payload.peer])
            /\ UNCHANGED nodes
    /\ ret' = [op |-> "on", type |-> payload.type]
    /\ UNCHANGED sent

\* RpcObserverExt::on_relay
on_relay(buf) ==
    /\ proxy_observer_calls' =
           Append(proxy_observer_calls, [hook |-> "relay", buf |-> buf])
    /\ ret' = [op |-> "on_relay"]
    /\ UNCHANGED <<nodes, sent>>

\* the payloads of the model
StateNotifies == {[type |-> "ProxyStateNotify", nodes |-> v] : v \in Views}
CreatePermissions ==
    {[type |-> "CreatePermission", id |-> i, from |-> Client, peer |-> p] :
        i \in {7, 8}, p \in LocalPeers}
Bufs == {"d1", "d2"}
Relays == {[type |-> "Relay", buf |-> b] : b \in Bufs}

\* a Proxy as Proxy::new leaves it, with nothing else running
ProxyInit ==
    /\ TableInit
    /\ LockInit
    /\ nodes = << >>
    /\ sent = << >>
    /\ delivered = << >>
    /\ proxy_observer_calls = << >>
    /\ proxy = TRUE
    /\ router_ports = {}
    /\ port_bounds = {}
    /\ observer_calls = << >>
    /\ ret = [op |-> "new"]

ProxyInOnlineNodes ==
    /\ \E a \in RemoteIps \cup {ip_of(External)} : call_in_online_nodes(a)
    /\ UNCHANGED <<tableVars, procVars, lockVars, stepVars>>
ProxySend ==
    /\ Len(sent) < MaxSent
    /\ \E pl \in CreatePermissions, to \in {7, 8} :
          pl.id = to /\ pl.peer.port = 6000 /\ Proxy_send(pl, to)
    /\ UNCHANGED <<tableVars, procVars, lockVars, stepVars>>
ProxyRelay ==
    /\ Len(sent) < MaxSent
    /\ \E pl \in Relays, to \in {7, 8} : Proxy_relay(pl, to)
    /\ UNCHANGED <<tableVars, procVars, lockVars, stepVars>>
ProxyCreatePermission ==
    /\ Len(sent) < MaxSent
    /\ \E peer \in Peers : Proxy_create_permission(Client, peer)
    /\ UNCHANGED <<tableVars, procVars, lockVars, stepVars>>
ProxyStateNotify ==
    /\ \E pl \in StateNotifies : on(pl)
    /\ UNCHANGED <<tableVars, procVars, lockVars, stepVars>>

\* the calls the host makes on a Proxy, and the state the fabric notifies
ProxyNext ==
    \/ ProxyInOnlineNodes
    \/ ProxySend
    \/ ProxyRelay
    \/ ProxyCreatePermission
    \/ ProxyStateNotify

InboundOn ==
    /\ \E pl \in StateNotifies \cup CreatePermissions :
          /\ pl.type = "CreatePermission"
                => Len(proxy_observer_calls) < MaxObserved
          /\ on(pl)
    /\ UNCHANGED <<tableVars, procVars, lockVars, stepVars>>
InboundOnRelay ==
    /\ Len(proxy_observer_calls) < MaxObserved
    /\ \E b \in Bufs : on_relay(b)
    /\ UNCHANGED <<tableVars, procVars, lockVars, stepVars>>

\* what the fabric delivers to this instance
InboundNext ==
    \/ InboundOn
    \/ InboundOnRelay

SpecInbound == ProxyInit /\ [][InboundNext]_vars

SpecProxy == ProxyInit /\ [][ProxyNext]_vars

\* C8: for every view, also one holding several entries with the same
\* external IP, and every IP, in_online_nodes(ip) reports a match if and only
\* if the view holds some node whose external IP is ip and whose online flag
\* is true.
C8_InOnlineNodesIff ==
    ret.op = "in_online_nodes" =>
        (ret.val <=>
            \E i \in 1..Len(nodes) :
                ip_of(nodes[i].external) = ret.addr /\ nodes[i].online)

----------------------------------------------------------------------------
(* The fabric between the instances *)

\* how many payloads are handed to the fabric in one behaviour of SpecFabric
MaxFabric == 3

\* the view in which both remote instances are online
BothOnline ==
    <<[index |-> 7, external |-> SocketAddr("198.51.100.9", 3478),
       online |-> TRUE],
      [index |-> 8, external |-> SocketAddr("192.0.2.7", 3478),
       online |-> TRUE]>>

\* Rpc: a payload handed over and not yet delivered can be delivered; one
\* handed to send_with_order only once every payload handed to
\* send_with_order before it for the same index has been
fabric_can_deliver(k) ==
    /\ ~Contains(delivered, k)
    /\ sent[k].order
       => \A j \in 1..(k - 1) :
             (sent[j].order /\ sent[j].to = sent[k].to)
             => Contains(delivered, j)

fabric_deliver(k) ==
    /\ fabric_can_deliver(k)
    /\ delivered' = Append(delivered, k)
    /\ ret' = [op |-> "deliver"]
    /\ UNCHANGED <<nodes, sent, proxy_observer_calls>>

fabricFrame == UNCHANGED <<tableVars, procVars, lockVars, table_lock, tpc, tl>>

FabricStateNotify ==
    /\ on([type |-> "ProxyStateNotify", nodes |-> BothOnline])
    /\ UNCHANGED delivered
    /\ fabricFrame
FabricSend ==
    /\ Len(sent) < MaxFabric
    /\ Proxy_send([type |-> "CreatePermission", id |-> 7, from |-> Client,
                   peer |-> SocketAddr(ip_of(External), 6000)], 7)
    /\ UNCHANGED delivered
    /\ fabricFrame
FabricRelay ==
    /\ Len(sent) < MaxFabric
    /\ \E pl \in Relays : Proxy_relay(pl, 7)
    /\ UNCHANGED delivered
    /\ fabricFrame
FabricCreatePermission ==
    /\ Len(sent) < MaxFabric
    /\ \E i \in RemoteIps : Proxy_create_permission(Client, SocketAddr(i, 7000))
    /\ UNCHANGED delivered
    /\ fabricFrame
FabricDeliver ==
    /\ \E k \in 1..Len(sent) : fabric_deliver(k)
    /\ fabricFrame

\* one instance hands payloads to the fabric, which delivers them
FabricNext ==
    \/ FabricStateNotify
    \/ FabricSend
    \/ FabricRelay
    \/ FabricCreatePermission
    \/ FabricDeliver

SpecFabric == ProxyInit /\ [][FabricNext]_vars

----------------------------------------------------------------------------
(* The proxy fabric client: properties *)

\* the payload the last fabric send handed over
LastSent == sent[Len(sent)]

C21_InboundDispatch ==
    [][/\ \A pl \in CreatePermissions :
             on(pl)
             => /\ proxy_observer_calls' =
                      Append(proxy_observer_calls,
                             [hook |-> "create_permission", id |-> pl.id,
                              from |-> pl.from, peer |-> pl.peer])
                /\ nodes' = nodes
       /\ \A b \in Bufs :
             on_relay(b)
             => /\ proxy_observer_calls' =
                      Append(proxy_observer_calls,
                             [hook |-> "relay", buf |-> b])
                /\ nodes' = nodes
       /\ \A pl \in StateNotifies :
             on(pl) => proxy_observer_calls' = proxy_observer_calls]_vars

\* a CreatePermission has just been dispatched to the observer, over a view
\* of two nodes
C21_Witness ==
    /\ ret.op = "on"
    /\ ret.type = "CreatePermission"
    /\ Len(nodes) = 2
    /\ Len(proxy_observer_calls) = 1
    /\ proxy_observer_calls[1].hook = "create_permission"

\* a relayed datagram has just been dispatched to the observer
C21_WitnessRelay ==
    /\ ret.op = "on_relay"
    /\ Len(proxy_observer_calls) = 1
    /\ proxy_observer_calls[1].hook = "relay"

\* C19: when create_permission hands a payload to the fabric, the view holds
\* a node with the destination index whose online flag is true.
C19_OnlyTowardOnline ==
    [][(ret'.op = "Proxy.create_permission" /\ Len(sent') > Len(sent))
       => \E i \in 1..Len(nodes) :
             /\ nodes[i].index = LastSent'.to
             /\ nodes[i].online]_vars

\* C20: create_permission(from, peer), when the view holds a node whose
\* external IP is peer.ip, returns Ok and hands the fabric exactly one payload,
\* CreatePermission{id, from, peer} with from and peer as passed, id the
\* destination index, and that index the index of a view node with that IP;
\* when the view holds no such node it returns an error and sends nothing.
C20_CreatePermissionPayload ==
    [][ret'.op = "Proxy.create_permission"
       => IF \E i \in 1..Len(nodes) :
                ip_of(nodes[i].external) = ip_of(ret'.peer)
          THEN /\ ret'.val = Ok
               /\ Len(sent') = Len(sent) + 1
               /\ SubSeq(sent', 1, Len(sent)) = sent
               /\ LastSent'.payload =
                      [type |-> "CreatePermission", id |-> LastSent'.to,
                       from |-> ret'.from, peer |-> ret'.peer]
               /\ \E i \in 1..Len(nodes) :
                     /\ nodes[i].index = LastSent'.to
                     /\ ip_of(nodes[i].external) = ip_of(ret'.peer)
          ELSE /\ ~ret'.val.ok
               /\ sent' = sent]_vars

\* create_permission has just sent a payload for a peer on the second node of
\* a view of two instances
C20_Witness ==
    /\ ret.op = "Proxy.create_permission"
    /\ ret.val = Ok
    /\ Len(nodes) = 2
    /\ ip_of(nodes[1].external) # ip_of(ret.peer)
    /\ ip_of(nodes[2].external) = ip_of(ret.peer)
    /\ Len(sent) > 0
    /\ LastSent.payload.peer = ret.peer

\* create_permission has just returned an error on a view that is not empty
C20_WitnessNotFound ==
    /\ ret.op = "Proxy.create_permission"
    /\ ~ret.val.ok
    /\ nodes # << >>
    /\ sent = << >>

----------------------------------------------------------------------------
(* The CreatePermission handler: turn/src/processor/create_permission.rs *)

\* the most XOR-PEER-ADDRESS attributes a request carries
MaxPeers == 2
\* how many observer calls are made in one behaviour
MaxHooks == 1

Realm == "example.org"
SOFTWARE == "turn-rs"

\* a request as the handler sees it: whether its MESSAGE-INTEGRITY verifies
\* for its USERNAME, and its XOR-PEER-ADDRESS attributes in message order
Requests ==
    [integrity : BOOLEAN, username : {"alice"}, peers : SeqsUpTo(Peers, MaxPeers)]

\* verify_message: the (username, key) of a request that verifies
verify_message(req) ==
    IF req.integrity THEN Some([username |-> req.username, key |-> "key"])
    ELSE None

\* MessageReader::get::<XorPeerAddress>: the first attribute of the kind
reader_get_XorPeerAddress(req) ==
    IF Len(req.peers) = 0 THEN None ELSE Some(req.peers[1])

\* what a request is to the handler: whether it verifies, how many
\* XOR-PEER-ADDRESS attributes it carries, and the first of them
Summary(req) ==
    [integrity |-> req.integrity, npeers |-> Len(req.peers),
     first |-> IF Len(req.peers) = 0 THEN None ELSE Some(req.peers[1])]

\* the call that has just returned
Returned(req, response) ==
    [op |-> "process", req |-> Summary(req), val |-> response]

\* Error::from(ErrKind)
Error_from(err) ==
    CASE err = "Unauthorized" -> 401
      [] err = "BadRequest" -> 400
      [] err = "Forbidden" -> 403

reject_no_realm(err) ==
    [kind |-> "Error",
     attrs |-> <<[type |-> "ErrorCode", value |-> Error_from(err)]>>,
     integrity |-> None]

reject(err) ==
    [kind |-> "Error",
     attrs |-> <<[type |-> "ErrorCode", value |-> Error_from(err)],
                 [type |-> "Realm", value |-> Realm]>>,
     integrity |-> None]

resolve(key) ==
    [kind |-> "Response",
     attrs |-> <<[type |-> "Software", value |-> SOFTWARE]>>,
     integrity |-> Some(key)]

\* Proxy::get_online_node: the first node of the view whose external IP is ip
\* and that is online
get_online_node(ip) ==
    LET i == find(nodes, {n \in WithIp(ip) : n.online})
    IN IF i # 0 THEN Some(nodes[i]) ELSE None

check_addr_relay_unknown(peer) ==
    IF ip_of(External) = ip_of(peer) THEN "Next" ELSE "Relay"

check_addr_all_local(peer) == "Next"

check_addr(peer) ==
    IF ip_of(External) = ip_of(peer) THEN "Next"
    ELSE IF proxy
         THEN IF get_online_node(ip_of(peer)).some THEN "Relay" ELSE "Failed"
         ELSE "Failed"

\* Router::bind_port: the binding is made when the port is allocated
bind_port_is_some(a, port) == port \in router_ports
bind_port_effect(a, port) ==
    port_bounds' = IF bind_port_is_some(a, port)
                   THEN port_bounds \cup {<<a, port>>} ELSE port_bounds

\* the hook is called before the binding is tried
process_local_hook_first(addr, req, auth, peer) ==
    /\ bind_port_effect(addr, peer.port)
    /\ observer_calls' =
           Append(observer_calls,
                  [hook |-> "create_permission", addr |-> addr,
                   username |-> auth.username, peer |-> peer])
    /\ ret' = Returned(req, IF bind_port_is_some(addr, peer.port)
                            THEN resolve(auth.key) ELSE reject("Forbidden"))

\* process, from the bind_port call on
process_local(addr, req, auth, peer) ==
    /\ bind_port_effect(addr, peer.port)
    /\ IF ~bind_port_is_some(addr, peer.port)
       THEN /\ observer_calls' = observer_calls
            /\ ret' = Returned(req, reject("Forbidden"))
       ELSE /\ observer_calls' =
                   Append(observer_calls,
                          [hook |-> "create_permission", addr |-> addr,
                           username |-> auth.username, peer |-> peer])
            /\ ret' = Returned(req, resolve(auth.key))

process(addr, req) ==
    LET auth == verify_message(req)
        peer == reader_get_XorPeerAddress(req)
    IN /\ IF ~auth.some
          THEN /\ ret' = Returned(req, reject("Unauthorized"))
               /\ UNCHANGED <<port_bounds, observer_calls>>
          ELSE IF ~peer.some
          THEN /\ ret' = Returned(req, reject("BadRequest"))
               /\ UNCHANGED <<port_bounds, observer_calls>>
          ELSE IF check_addr(peer.val) = "Failed"
          THEN /\ ret' = Returned(req, reject("Forbidden"))
               /\ UNCHANGED <<port_bounds, observer_calls>>
          ELSE IF check_addr(peer.val) = "Relay"
          THEN /\ ret' = Returned(req, resolve(auth.val.key))
               /\ UNCHANGED <<port_bounds, observer_calls>>
          ELSE process_local(addr, req, auth.val, peer.val)
       /\ UNCHANGED <<proxy, router_ports, nodes, sent, proxy_observer_calls>>

\* Router: a relayed port is allocated (an Allocate request)
router_alloc_port(port) ==
    /\ router_ports' = router_ports \cup {port}
    /\ ret' = [op |-> "alloc_port", port |-> port]
    /\ UNCHANGED <<proxy, port_bounds, observer_calls>>

\* the server as it starts, with or without a Proxy configured
ProcInit ==
    /\ TableInit
    /\ LockInit
    /\ nodes = << >>
    /\ sent = << >>
    /\ delivered = << >>
    /\ proxy_observer_calls = << >>
    /\ proxy \in BOOLEAN
    /\ router_ports = {}
    /\ port_bounds = {}
    /\ observer_calls = << >>
    /\ ret = [op |-> "new"]

ProcProcess ==
    /\ Len(observer_calls) < MaxHooks
    /\ \E req \in Requests : process(Client, req)
    /\ UNCHANGED <<tableVars, lockVars, stepVars>>
ProcAllocate ==
    /\ \E port \in PeerPorts : router_alloc_port(port)
    /\ UNCHANGED <<tableVars, proxyVars, lockVars, stepVars>>
ProcStateNotify ==
    /\ proxy
    /\ \E pl \in StateNotifies : on(pl)
    /\ UNCHANGED <<tableVars, procVars, lockVars, stepVars>>

ProcNext ==
    \/ ProcProcess
    \/ ProcAllocate
    \/ ProcStateNotify

SpecProc == ProcInit /\ [][ProcNext]_vars

----------------------------------------------------------------------------
(* The CreatePermission handler: properties *)

\* the view holds an online node whose external IP is the peer's
OnlineMatch(peer) ==
    \E i \in 1..Len(nodes) :
        ip_of(nodes[i].external) = ip_of(peer) /\ nodes[i].online

IsLocal(peer) == ip_of(peer) = ip_of(External)

\* an authenticated request with at least one XOR-PEER-ADDRESS
Authenticated(req) == req.integrity /\ Len(req.peers) > 0

HasAttr(resp, type) == \E i \in 1..Len(resp.attrs) : resp.attrs[i].type = type
IsError(resp, code) ==
    /\ resp.kind = "Error"
    /\ \E i \in 1..Len(resp.attrs) :
          resp.attrs[i].type = "ErrorCode" /\ resp.attrs[i].value = code
IsSuccess(resp) == resp.kind = "Response"

\* neither the router nor the observer nor the fabric is touched
Untouched ==
    /\ port_bounds' = port_bounds
    /\ router_ports' = router_ports
    /\ observer_calls' = observer_calls
    /\ sent' = sent

\* a process call on an authenticated request with a first peer has just
\* returned; Peer is that peer
Handled == ret.op = "process" /\ ret.req.integrity /\ ret.req.first.some
Peer == ret.req.first.val

\* C2: handling an authenticated request whose peer IP is not the external
\* IP and matches an online node of the view hands to the fabric one
\* CreatePermission{id = that node's index, from = client, peer = peer},
\* addressed to that index, in the step that replies.
C2_CrossServerEmits ==
    [][\A req \in Requests :
         (/\ Authenticated(req)
          /\ ~IsLocal(req.peers[1])
          /\ OnlineMatch(req.peers[1])
          /\ process(Client, req))
         => \E i \in 1..Len(nodes) :
               /\ ip_of(nodes[i].external) = ip_of(req.peers[1])
               /\ nodes[i].online
               /\ Len(sent') = Len(sent) + 1
               /\ sent'[Len(sent')].to = nodes[i].index
               /\ sent'[Len(sent')].payload =
                      [type |-> "CreatePermission", id |-> nodes[i].index,
                       from |-> Client, peer |-> req.peers[1]]]_vars

\* C3: a request resolved on the cross-server path (the peer IP is not the
\* external IP and matches an online node of the view) is answered with a
\* success response, and neither a port binding is made nor the observer's
\* create_permission hook called.
C3_CrossServerLeavesRouter ==
    [][(/\ Handled'
        /\ ~IsLocal(Peer')
        /\ OnlineMatch(Peer'))
       => /\ IsSuccess(ret'.val)
          /\ port_bounds' = port_bounds
          /\ router_ports' = router_ports
          /\ observer_calls' = observer_calls]_vars

\* a request for a remote peer has just been answered with success, with the
\* peer's port allocated on this server
C3_Witness ==
    /\ Handled
    /\ ~IsLocal(Peer)
    /\ OnlineMatch(Peer)
    /\ IsSuccess(ret.val)
    /\ Peer.port \in router_ports

C4_WitnessRefused ==
    /\ Handled
    /\ IsLocal(Peer)
    /\ IsError(ret.val, 403)
    /\ router_ports # {}

\* C5: an authenticated request whose peer IP is neither the external IP nor
\* the external IP of an online node of the view (no proxy and an empty view
\* included) is answered 403, and no binding, hook call or fabric send is
\* made.
C5_UnreachableForbidden ==
    [][(/\ Handled'
        /\ ~IsLocal(Peer')
        /\ ~OnlineMatch(Peer'))
       => /\ IsError(ret'.val, 403)
          /\ Untouched]_vars

\* a request for a peer that the view lists, but offline, has just been
\* answered 403 although the peer's port is allocated on this server
C5_Witness ==
    /\ Handled
    /\ ~IsLocal(Peer)
    /\ IsError(ret.val, 403)
    /\ \E i \in 1..Len(nodes) :
          ip_of(nodes[i].external) = ip_of(Peer) /\ ~nodes[i].online
    /\ Peer.port \in router_ports

\* C6: a request that fails message-integrity verification is answered 401
\* with a REALM attribute whatever else it carries, an authenticated one
\* without XOR-PEER-ADDRESS is answered 400, and in both cases the router, the
\* observer and the fabric are untouched.
C6_ChecksInOrder ==
    [][ret'.op = "process"
       => /\ ~ret'.req.integrity
             => /\ IsError(ret'.val, 401)
                /\ HasAttr(ret'.val, "Realm")
                /\ Untouched
          /\ (ret'.req.integrity /\ ret'.req.npeers = 0)
             => /\ IsError(ret'.val, 400)
                /\ Untouched]_vars

\* a request with a local peer whose port is allocated has just been answered
\* 401, with a REALM attribute
C6_Witness ==
    /\ ret.op = "process"
    /\ ~ret.req.integrity
    /\ ret.req.first.some
    /\ IsLocal(ret.req.first.val)
    /\ ret.req.first.val.port \in router_ports
    /\ IsError(ret.val, 401)
    /\ HasAttr(ret.val, "Realm")

\* a request without XOR-PEER-ADDRESS has just been answered 400
C6_WitnessBadRequest ==
    /\ ret.op = "process"
    /\ ret.req.integrity
    /\ ret.req.npeers = 0
    /\ IsError(ret.val, 400)

\* the decision table says the peer cannot be reached
Unreachable(peer) ==
    \/ check_addr(peer) = "Failed"
    \/ check_addr(peer) = "Next" /\ ~bind_port_is_some(Client, peer.port)

\* C7: for a request with several XOR-PEER-ADDRESS attributes the decision
\* table is applied to every one of them: the reply is 403 when any of them
\* is unreachable, and a success reply comes with a binding for each peer
\* whose IP is the external IP.
C7_EveryPeerDecided ==
    [][\A req \in Requests :
         (Authenticated(req) /\ process(Client, req))
         => /\ (\E i \in 1..Len(req.peers) : Unreachable(req.peers[i]))
               => IsError(ret'.val, 403)
            /\ IsSuccess(ret'.val)
               => \A i \in 1..Len(req.peers) :
                     IsLocal(req.peers[i])
                     => <<Client, req.peers[i].port>> \in port_bounds']_vars

----------------------------------------------------------------------------
(* The proxy view under its RwLock, one step at a time *)

\* RwLock::read: granted while no writer holds the lock
can_read == ~lock.writer

\* RwLock::write, granted whatever the readers
can_write_over_readers == ~lock.writer

\* RwLock::write: granted while nobody holds the lock
can_write == ~lock.writer /\ lock.readers = {}

\* the IP a reading call looks for
wanted(r) == IF r.op = "in_online_nodes" THEN r.arg ELSE ip_of(r.arg)

\* a worker enters in_online_nodes(addr) or create_permission(from, peer)
reader_call(t, op, arg) ==
    /\ pc[t] = "idle"
    /\ op = "create_permission" => Len(sent) < MaxSent
    /\ pc' = [pc EXCEPT ![t] = "acquire"]
    /\ rd' = [rd EXCEPT ![t] = [op |-> op, arg |-> arg, i |-> 0, found |-> 0,
                                seen |-> << >>, snap |-> << >>]]
    /\ UNCHANGED <<lock, wr, nodes, sent, ret>>

\* self.nodes.read()
read_lock(t) ==
    /\ pc[t] = "acquire"
    /\ can_read
    /\ lock' = [lock EXCEPT !.readers = @ \cup {t}]
    /\ pc' = [pc EXCEPT ![t] = "scan"]
    /\ rd' = [rd EXCEPT ![t].i = 1, ![t].snap = nodes]
    /\ UNCHANGED <<wr, nodes, sent, ret>>

\* .iter().find(..): the next element is looked at
scan(t) ==
    /\ pc[t] = "scan"
    /\ IF rd[t].i > Len(nodes)
       THEN /\ rd' = [rd EXCEPT ![t].found = 0]
            /\ pc' = [pc EXCEPT ![t] = "found"]
       ELSE IF nodes[rd[t].i] \in WithIp(wanted(rd[t]))
       THEN /\ rd' = [rd EXCEPT ![t].found = rd[t].i,
                                ![t].seen = Append(@, nodes[rd[t].i])]
            /\ pc' = [pc EXCEPT ![t] = "found"]
       ELSE /\ rd' = [rd EXCEPT ![t].i = @ + 1,
                                ![t].seen = Append(@, nodes[rd[t].i])]
            /\ pc' = pc
    /\ UNCHANGED <<lock, wr, nodes, sent, ret>>

\* in_online_nodes returns node.online or false, and the guard is dropped
in_online_nodes_return(t) ==
    /\ pc[t] = "found"
    /\ rd[t].op = "in_online_nodes"
    /\ ret' = [op |-> "in_online_nodes", addr |-> rd[t].arg,
               val |-> IF rd[t].found # 0
                       THEN rd[t].seen[Len(rd[t].seen)].online ELSE FALSE]
    /\ lock' = [lock EXCEPT !.readers = @ \ {t}]
    /\ pc' = [pc EXCEPT ![t] = "idle"]
    /\ rd' = [rd EXCEPT ![t] = NoRead]
    /\ UNCHANGED <<wr, nodes, sent>>

\* create_permission finds no node: the error is returned, the guard dropped
create_permission_not_found(t) ==
    /\ pc[t] = "found"
    /\ rd[t].op = "create_permission"
    /\ rd[t].found = 0
    /\ ret' = [op |-> "Proxy.create_permission", from |-> Client,
               peer |-> rd[t].arg, val |-> Err("not found node!")]
    /\ lock' = [lock EXCEPT !.readers = @ \ {t}]
    /\ pc' = [pc EXCEPT ![t] = "idle"]
    /\ rd' = [rd EXCEPT ![t] = NoRead]
    /\ UNCHANGED <<wr, nodes, sent>>

\* create_permission hands the payload to the fabric; the guard `nodes` is
\* still alive
create_permission_send(t) ==
    /\ pc[t] = "found"
    /\ rd[t].op = "create_permission"
    /\ rd[t].found # 0
    /\ LET node == rd[t].seen[Len(rd[t].seen)]
       IN rpc_send_with_order(
              [type |-> "CreatePermission", id |-> node.index,
               from |-> Client, peer |-> rd[t].arg],
              node.index)
    /\ pc' = [pc EXCEPT ![t] = "sent"]
    /\ UNCHANGED <<lock, rd, wr, nodes, ret>>

\* create_permission returns Ok(()), and the guard is dropped
create_permission_return(t) ==
    /\ pc[t] = "sent"
    /\ ret' = [op |-> "Proxy.create_permission", from |-> Client,
               peer |-> rd[t].arg, val |-> Ok]
    /\ lock' = [lock EXCEPT !.readers = @ \ {t}]
    /\ pc' = [pc EXCEPT ![t] = "idle"]
    /\ rd' = [rd EXCEPT ![t] = NoRead]
    /\ UNCHANGED <<wr, nodes, sent>>

\* the receive loop enters on(ProxyStateNotify(new))
on_call(new) ==
    /\ pc[Writer] = "idle"
    /\ pc' = [pc EXCEPT ![Writer] = "acquire"]
    /\ wr' = new
    /\ UNCHANGED <<lock, rd, nodes, sent, ret>>

\* self.nodes.write()
write_lock ==
    /\ pc[Writer] = "acquire"
    /\ can_write
    /\ lock' = [lock EXCEPT !.writer = TRUE]
    /\ pc' = [pc EXCEPT ![Writer] = "store"]
    /\ UNCHANGED <<rd, wr, nodes, sent, ret>>

\* the view is assigned, the guard dropped, and on returns
on_return ==
    /\ pc[Writer] = "store"
    /\ on_store(wr)
    /\ lock' = [lock EXCEPT !.writer = FALSE]
    /\ pc' = [pc EXCEPT ![Writer] = "idle"]
    /\ ret' = [op |-> "on", type |-> "ProxyStateNotify", nodes |-> wr]
    /\ wr' = << >>
    /\ UNCHANGED <<rd, sent>>

viewFrame == UNCHANGED <<tableVars, procVars, proxy_observer_calls, stepVars>>

ViewInOnlineNodes ==
    /\ \E t \in Readers, a \in RemoteIps : reader_call(t, "in_online_nodes", a)
    /\ viewFrame
ViewCreatePermission ==
    /\ \E t \in Readers :
          reader_call(t, "create_permission", SocketAddr("198.51.100.9", 7000))
    /\ viewFrame
ViewReadLock ==
    /\ \E t \in Readers : read_lock(t)
    /\ viewFrame
ViewScan ==
    /\ \E t \in Readers : scan(t)
    /\ viewFrame
ViewInOnlineNodesReturn ==
    /\ \E t \in Readers : in_online_nodes_return(t)
    /\ viewFrame
ViewCreatePermissionNotFound ==
    /\ \E t \in Readers : create_permission_not_found(t)
    /\ viewFrame
ViewCreatePermissionSend ==
    /\ \E t \in Readers : create_permission_send(t)
    /\ viewFrame
ViewCreatePermissionReturn ==
    /\ \E t \in Readers : create_permission_return(t)
    /\ viewFrame
ViewOnCall ==
    /\ \E v \in Views : on_call(v)
    /\ viewFrame
ViewWriteLock ==
    /\ write_lock
    /\ viewFrame
ViewOnReturn ==
    /\ on_return
    /\ viewFrame

ViewNext ==
    \/ ViewInOnlineNodes
    \/ ViewCreatePermission
    \/ ViewReadLock
    \/ ViewScan
    \/ ViewInOnlineNodesReturn
    \/ ViewCreatePermissionNotFound
    \/ ViewCreatePermissionSend
    \/ ViewCreatePermissionReturn
    \/ ViewOnCall
    \/ ViewWriteLock
    \/ ViewOnReturn

SpecView == ProxyInit /\ [][ViewNext]_vars

\* C9: when on(ProxyStateNotify(nodes)) has returned the view is exactly the
\* received list, and a reader that holds the view sees one view throughout:
\* the view it locked is the view that is there, every element it has looked
\* at is an element of that view, in order, and what it found is what a scan
\* of that whole view finds.
C9_AtomicReplace ==
    /\ ret.op = "on" => nodes = ret.nodes
    /\ \A t \in Readers :
          pc[t] \in {"scan", "found", "sent"}
          => /\ t \in lock.readers
             /\ rd[t].snap = nodes
             /\ Len(rd[t].seen) <= Len(rd[t].snap)
             /\ rd[t].seen = SubSeq(rd[t].snap, 1, Len(rd[t].seen))
             /\ pc[t] \in {"found", "sent"}
                => rd[t].found = find(rd[t].snap, WithIp(wanted(rd[t])))

\* a reader is in the middle of its scan of a view of two nodes while the
\* receive loop waits to store another view
C9_Witness ==
    /\ \E t \in Readers :
          /\ pc[t] = "scan"
          /\ Len(rd[t].seen) = 1
          /\ Len(nodes) = 2
    /\ pc[Writer] = "acquire"
    /\ wr # nodes
    /\ ret.op = "on"

\* C16: whenever a thread hands a payload to the fabric it holds no lock on
\* the proxy view, so the receive loop never waits for the view while a send
\* is under way.
C16_NoLockAcrossSend ==
    /\ [][\A t \in Readers :
            create_permission_send(t)
            => t \notin lock.readers /\ ~lock.writer]_vars
    /\ [](\A t \in Readers :
            ~(pc[t] = "sent" /\ t \in lock.readers /\ pc[Writer] = "acquire"))

====
